---------------------------- MODULE Spec2Model ----------------------------
(***************************************************************************)
(* RMSNorm (vllm/model_executor/layers/layernorm.py): the module-level     *)
(* binding of FusedRMSNorm, the constructor, the PyTorch-native _forward   *)
(* and the dispatching forward.                                            *)
(*                                                                         *)
(* Numbers.  A tensor element is a fixed-point number: the integer v       *)
(* stands for v/16.  float32 holds every integer; the low-precision        *)
(* storage type ("float16") holds the multiples of 4 only, and a           *)
(* conversion to it rounds to the nearest multiple (ties up).  A variance  *)
(* and eps are in units of 1/256.  NonFinite stands for inf and NaN.       *)
(* A weight is a plain integer factor (1 stands for 1.0).                  *)
(*                                                                         *)
(* Tensors.  A tensor is [shape |-> <<rows, cols>>, data |-> row-major     *)
(* sequence]; the weight of hidden size H is the tensor of shape <<1, H>>. *)
(***************************************************************************)
EXTENDS Integers, Sequences, FiniteSets, TLC

VARIABLES
    FusedRMSNorm,   \* module global: "unbound" | "None" | "class"
    inst,           \* the RMSNorm instance: weight, variance_epsilon
    pc,             \* "new" (no instance) | "idle" | "done" (a call returned)
    call,           \* the arguments of the last call, as passed
    xbuf,           \* the caller's input buffer x, as the call leaves it
    resbuf,         \* the caller's residual buffer, as the call leaves it
    ret,            \* what the call returned or raised, and the path taken
    steps,          \* _forward's intermediate values, in the order computed
    chain           \* the residual the caller carries to the next layer

vars == <<FusedRMSNorm, inst, pc, call, xbuf, resbuf, ret, steps, chain>>

---------------------------------------------------------------------------
(* Bounds of the model. *)
MaxCols == 2
MaxHidden == 2
MaxChain == 2

NonFinite == 2^20

Dtypes == {"float32", "float16"}
Elems == {0, 12}
EpsVals == {0, 1}
HiddenSizes == -1..MaxHidden
LoadedVals == {3}

\* one row of up to MaxCols columns, or a batch of two rows of one column
Shapes == {<<1, c>> : c \in 1..MaxCols} \cup {<<2, 1>>}

Numel(shape) == shape[1] * shape[2]

TensorsOf(shape) == {[shape |-> shape, data |-> d] : d \in [1..Numel(shape) -> Elems]}

Tensors == UNION {TensorsOf(s) : s \in Shapes}

NoTensor == [shape |-> <<0, 0>>, data |-> <<>>]

---------------------------------------------------------------------------
(* Element arithmetic. *)

Add(a, b) == IF a = NonFinite \/ b = NonFinite THEN NonFinite ELSE a + b

Mul(a, b) == IF a = NonFinite \/ b = NonFinite THEN NonFinite ELSE a * b

Grid(dtype) == IF dtype = "float32" THEN 1 ELSE 4

\* Tensor.to(dtype) on one element: round to the nearest value dtype holds.
ToElem(v, dtype) ==
    IF v = NonFinite THEN NonFinite
    ELSE ((2 * v + Grid(dtype)) \div (2 * Grid(dtype))) * Grid(dtype)

ISqrt(n) == CHOOSE r \in 0..256 : r * r <= n /\ (r + 1) * (r + 1) > n

\* torch.rsqrt of v/256, in units of 1/16: inf at 0, NaN below 0.
Rsqrt(v) ==
    IF v = NonFinite \/ v <= 0 THEN NonFinite
    ELSE ISqrt(65536 \div v)

\* the product of an element and an rsqrt factor, in units of 1/16
Scaled(a, f) == IF a = NonFinite \/ f = NonFinite THEN NonFinite ELSE (a * f) \div 16

---------------------------------------------------------------------------
(* Tensor operations, with torch's broadcasting. *)

At(t, i, j) ==
    t.data[((IF t.shape[1] = 1 THEN 1 ELSE i) - 1) * t.shape[2]
           + (IF t.shape[2] = 1 THEN 1 ELSE j)]

Broadcastable(s1, s2) ==
    \A d \in 1..2 : s1[d] = s2[d] \/ s1[d] = 1 \/ s2[d] = 1

BroadcastShape(s1, s2) ==
    <<IF s1[1] = 1 THEN s2[1] ELSE s1[1], IF s1[2] = 1 THEN s2[2] ELSE s1[2]>>

\* row and column of the k-th element of a tensor of a shape
RowOf(k, shape) == ((k - 1) \div shape[2]) + 1

ColOf(k, shape) == ((k - 1) % shape[2]) + 1

TAdd(a, b) ==
    LET shape == BroadcastShape(a.shape, b.shape)
    IN [shape |-> shape,
        data |-> [k \in 1..Numel(shape) |->
                     Add(At(a, RowOf(k, shape), ColOf(k, shape)),
                         At(b, RowOf(k, shape), ColOf(k, shape)))]]

TMul(a, b) ==
    LET shape == BroadcastShape(a.shape, b.shape)
    IN [shape |-> shape,
        data |-> [k \in 1..Numel(shape) |->
                     Mul(At(a, RowOf(k, shape), ColOf(k, shape)),
                         At(b, RowOf(k, shape), ColOf(k, shape)))]]

TScale(a, f) ==
    LET shape == BroadcastShape(a.shape, f.shape)
    IN [shape |-> shape,
        data |-> [k \in 1..Numel(shape) |->
                     Scaled(At(a, RowOf(k, shape), ColOf(k, shape)),
                            At(f, RowOf(k, shape), ColOf(k, shape)))]]

To(t, dtype) ==
    [shape |-> t.shape, data |-> [k \in 1..Len(t.data) |-> ToElem(t.data[k], dtype)]]

\* Tensor.view(shape): the same elements under another shape
View(t, shape) == [shape |-> shape, data |-> t.data]

RECURSIVE SumSq(_, _, _)
SumSq(t, i, j) ==
    IF j = 0 THEN 0 ELSE Add(Mul(At(t, i, j), At(t, i, j)), SumSq(t, i, j - 1))

\* x.pow(2).mean(dim=-1, keepdim=True)
MeanSq(t) ==
    [shape |-> <<t.shape[1], 1>>,
     data |-> [i \in 1..t.shape[1] |->
                  LET sq == SumSq(t, i, t.shape[2])
                  IN IF sq = NonFinite THEN NonFinite ELSE sq \div t.shape[2]]]

\* torch.rsqrt(variance + eps)
RsqrtOf(variance, eps) ==
    [shape |-> variance.shape,
     data |-> [k \in 1..Len(variance.data) |-> Rsqrt(Add(variance.data[k], eps))]]

Ones(n) == [shape |-> <<1, n>>, data |-> [k \in 1..n |-> 1]]

---------------------------------------------------------------------------
(* Module import, lines 10-15: FusedRMSNorm is bound only in an HPU        *)
(* process; a failed import binds it to None.                              *)
ModuleImport(is_hpu, importOk) ==
    IF is_hpu THEN (IF importOk THEN "class" ELSE "None") ELSE "unbound"

\* The device types a tensor of the process can have: an "hpu" tensor
\* needs habana_frameworks, whose presence is what is_hpu() reports.
Devices(fused) == IF fused = "unbound" THEN {"cpu"} ELSE {"cpu", "hpu"}

NoInst == [constructed |-> FALSE, weight |-> NoTensor, variance_epsilon |-> 0]

\* RMSNorm.__init__: torch.ones(hidden_size) raises for a negative size;
\* eps is stored as given.
Init_raises(hidden_size, eps) == hidden_size < 0

RMSNorm(hidden_size, eps) ==
    [constructed |-> TRUE, weight |-> Ones(hidden_size), variance_epsilon |-> eps]

---------------------------------------------------------------------------
(* What a call leaves behind: kind is "single" (one tensor returned),      *)
(* "pair" (output and residual returned) or the exception raised; xbuf,    *)
(* resbuf and weight are the caller's buffers and the parameter after the  *)
(* call.                                                                   *)

NoSteps == [summed |-> NoTensor, variance |-> NoTensor, scaled |-> NoTensor]

NoRet ==
    [kind |-> "none", out |-> NoTensor, res |-> NoTensor, path |-> "none"]

Outcome(kind, path, out, res, xb, rb, w, st) ==
    [ret |-> [kind |-> kind, out |-> out, res |-> res, path |-> path],
     xbuf |-> xb, resbuf |-> rb, weight |-> w, steps |-> st]

---------------------------------------------------------------------------
(* The kernels forward hands the work to.  Each computes steps 3-6 of the  *)
(* reference algorithm (residual addition first, for the fused add), and   *)
(* rejects operands whose shapes disagree.                                 *)

RmsNormRef(x, w, eps, dtype) ==
    LET x32 == To(x, "float32")
    IN TMul(To(TScale(x32, RsqrtOf(MeanSq(x32), eps)), dtype), w)

\* FusedRMSNorm.apply(t, weight, eps): returns a new tensor
FusedRMSNorm_apply(t, w, eps, dtype) ==
    LET err == w.shape[2] # t.shape[2]
    IN [err |-> err, out |-> IF err THEN NoTensor ELSE RmsNormRef(t, w, eps, dtype)]

\* ops.rms_norm(out, x, weight, eps): writes out
rms_norm(x, w, eps, dtype) ==
    LET err == w.shape[2] # x.shape[2]
    IN [err |-> err, out |-> IF err THEN NoTensor ELSE RmsNormRef(x, w, eps, dtype)]

\* ops.fused_add_rms_norm(x, residual, weight, eps): writes residual (the
\* sum) and x (the normalized sum) in place
fused_add_rms_norm(x, residual, w, eps, dtype) ==
    LET sum == TAdd(To(x, "float32"), To(residual, "float32"))
        err == x.shape # residual.shape \/ w.shape[2] # x.shape[2]
    IN [err |-> err,
        x |-> IF err THEN x ELSE RmsNormRef(sum, w, eps, dtype),
        residual |-> IF err THEN residual ELSE To(sum, dtype)]

\* the weight multiplied in before the conversion to orig_dtype
_forward_weight_first(x, residual, hasRes, w, eps, dtype) ==
    LET orig_dtype == dtype
        x1 == To(x, "float32")
        addOk == ~hasRes \/ Broadcastable(x1.shape, residual.shape)
        x2 == IF hasRes THEN TAdd(x1, To(residual, "float32")) ELSE x1
        residual2 == IF hasRes THEN To(x2, orig_dtype) ELSE NoTensor
        variance == MeanSq(x2)
        x3 == TScale(x2, RsqrtOf(variance, eps))
        mulOk == Broadcastable(x3.shape, w.shape)
        x5 == To(TMul(x3, w), orig_dtype)
        st == [summed |-> x2, variance |-> variance, scaled |-> x3]
    IN  IF ~addOk \/ ~mulOk
          THEN Outcome("RuntimeError", "native", NoTensor, NoTensor,
                       x, residual, w, NoSteps)
        ELSE IF ~hasRes
          THEN Outcome("single", "native", x5, NoTensor, x, residual, w, st)
        ELSE Outcome("pair", "native", x5, residual2, x, residual, w, st)

---------------------------------------------------------------------------
(* RMSNorm._forward, lines 39-51.  Every tensor it makes is new: the       *)
(* caller's buffers are left as passed.                                    *)
_forward(x, residual, hasRes, w, eps, dtype) ==
    LET orig_dtype == dtype
        x1 == To(x, "float32")
        addOk == ~hasRes \/ Broadcastable(x1.shape, residual.shape)
        x2 == IF hasRes THEN TAdd(x1, To(residual, "float32")) ELSE x1
        residual2 == IF hasRes THEN To(x2, orig_dtype) ELSE NoTensor
        variance == MeanSq(x2)
        x3 == TScale(x2, RsqrtOf(variance, eps))
        x4 == To(x3, orig_dtype)
        mulOk == Broadcastable(x4.shape, w.shape)
        x5 == TMul(x4, w)
        st == [summed |-> x2, variance |-> variance, scaled |-> x3]
    IN  IF ~addOk
          THEN Outcome("RuntimeError", "native", NoTensor, NoTensor,
                       x, residual, w, NoSteps)
        ELSE IF ~mulOk
          THEN Outcome("RuntimeError", "native", NoTensor, NoTensor,
                       x, residual, w, NoSteps)
        ELSE IF ~hasRes
          THEN Outcome("single", "native", x5, NoTensor, x, residual, w, st)
        ELSE Outcome("pair", "native", x5, residual2, x, residual, w, st)

\* a lookup of the name before the device test
Dispatch_eager(device, fused) ==
    IF fused = "unbound" THEN "NameError"
    ELSE IF device = "hpu" /\ fused = "class" THEN "hpu"
    ELSE "ops"

\* `x.device.type == "hpu" and FusedRMSNorm`, lines 59 and 72: the name is
\* looked up only when the device is "hpu"; None is falsy.
Dispatch(device, fused) ==
    IF device # "hpu" THEN "ops"
    ELSE IF fused = "unbound" THEN "NameError"
    ELSE IF fused = "class" THEN "hpu"
    ELSE "ops"

\* `residual = x.view(residual.shape)` in place of `residual +=`
forward_hpu_add_assign(x, residual, w, eps, dtype) ==
    LET orig_shape == x.shape
        viewOk == Numel(x.shape) = Numel(residual.shape)
        residual1 == View(x, residual.shape)
        k == FusedRMSNorm_apply(residual1, w, eps, dtype)
    IN  IF ~viewOk
          THEN Outcome("RuntimeError", "hpu_add", NoTensor, NoTensor,
                       x, residual, w, NoSteps)
        ELSE IF k.err
          THEN Outcome("ShapeMismatch", "hpu_add", NoTensor, NoTensor,
                       x, residual1, w, NoSteps)
        ELSE Outcome("pair", "hpu_add", View(k.out, orig_shape), residual1,
                     x, residual1, w, NoSteps)

\* forward, lines 60-64: residual is updated in place, then normalized by
\* the HPU kernel into a new tensor; x is only read.
forward_hpu_add(x, residual, w, eps, dtype) ==
    LET orig_shape == x.shape
        viewOk == Numel(x.shape) = Numel(residual.shape)
        residual1 == To(TAdd(residual, View(x, residual.shape)), dtype)
        k == FusedRMSNorm_apply(residual1, w, eps, dtype)
    IN  IF ~viewOk
          THEN Outcome("RuntimeError", "hpu_add", NoTensor, NoTensor,
                       x, residual, w, NoSteps)
        ELSE IF k.err
          THEN Outcome("ShapeMismatch", "hpu_add", NoTensor, NoTensor,
                       x, residual1, w, NoSteps)
        ELSE Outcome("pair", "hpu_add", View(k.out, orig_shape), residual1,
                     x, residual1, w, NoSteps)

\* the weight and the residual passed in each other's place
forward_ops_add_swapped(x, residual, w, eps, dtype) ==
    LET k == fused_add_rms_norm(x, w, residual, eps, dtype)
    IN  IF k.err
          THEN Outcome("ShapeMismatch", "ops_add", NoTensor, NoTensor,
                       x, residual, w, NoSteps)
        ELSE Outcome("pair", "ops_add", k.x, residual,
                     k.x, residual, k.residual, NoSteps)

\* forward, lines 65-71: the kernel writes x and residual in place, and
\* the two buffers are what the call returns.
forward_ops_add(x, residual, w, eps, dtype) ==
    LET k == fused_add_rms_norm(x, residual, w, eps, dtype)
    IN  IF k.err
          THEN Outcome("ShapeMismatch", "ops_add", NoTensor, NoTensor,
                       x, residual, w, NoSteps)
        ELSE Outcome("pair", "ops_add", k.x, k.residual,
                     k.x, k.residual, w, NoSteps)

\* forward, lines 73-74: the HPU kernel returns a new tensor.
forward_hpu(x, residual, w, eps, dtype) ==
    LET k == FusedRMSNorm_apply(x, w, eps, dtype)
    IN  IF k.err
          THEN Outcome("ShapeMismatch", "hpu", NoTensor, NoTensor,
                       x, residual, w, NoSteps)
        ELSE Outcome("single", "hpu", k.out, NoTensor, x, residual, w, NoSteps)

\* x itself passed as the kernel's out
forward_ops_into_x(x, residual, w, eps, dtype) ==
    LET k == rms_norm(x, w, eps, dtype)
    IN  IF k.err
          THEN Outcome("ShapeMismatch", "ops", NoTensor, NoTensor,
                       x, residual, w, NoSteps)
        ELSE Outcome("single", "ops", k.out, NoTensor, k.out, residual, w, NoSteps)

\* forward, lines 75-82: the kernel writes a tensor made by empty_like.
forward_ops(x, residual, w, eps, dtype) ==
    LET k == rms_norm(x, w, eps, dtype)
    IN  IF k.err
          THEN Outcome("ShapeMismatch", "ops", NoTensor, NoTensor,
                       x, residual, w, NoSteps)
        ELSE Outcome("single", "ops", k.out, NoTensor, x, residual, w, NoSteps)

\* RMSNorm.forward, lines 58-82.
forward(x, residual, hasRes, w, eps, dtype, device, fused) ==
    LET d == Dispatch(device, fused)
    IN  IF d = "NameError"
          THEN Outcome("NameError", "none", NoTensor, NoTensor,
                       x, residual, w, NoSteps)
        ELSE IF hasRes /\ d = "hpu" THEN forward_hpu_add(x, residual, w, eps, dtype)
        ELSE IF hasRes THEN forward_ops_add(x, residual, w, eps, dtype)
        ELSE IF d = "hpu" THEN forward_hpu(x, residual, w, eps, dtype)
        ELSE forward_ops(x, residual, w, eps, dtype)

---------------------------------------------------------------------------
(* The caller: it passes its buffers to a call, takes the result, and      *)
(* either drops it or (a decoder layer) carries the returned residual to   *)
(* the next call.  chain.total is the carried residual as the sum of the   *)
(* first residual and the inputs added since, kept apart from the code.    *)

NoCall ==
    [fn |-> "none", device |-> "cpu", dtype |-> "float32", x |-> NoTensor,
     residual |-> NoTensor, hasRes |-> FALSE, weight |-> NoTensor,
     variance_epsilon |-> 0]

NoChain == [n |-> 0, total |-> NoTensor, res |-> NoTensor, dtype |-> "float32"]

ElemSum(a, b) == [shape |-> a.shape, data |-> [k \in 1..Len(a.data) |-> a.data[k] + b.data[k]]]

ChainAfter(c, x, residual, hasRes, dtype) ==
    IF hasRes /\ x.shape = residual.shape
      THEN [n |-> c.n + 1,
            total |-> ElemSum(IF c.n > 0 THEN c.total ELSE residual, x),
            res |-> NoTensor, dtype |-> dtype]
      ELSE NoChain

\* The residual arguments a caller can pass: the carried residual when it
\* holds one, else none or any tensor.
ResidualArgs(c) ==
    IF c.n > 0 THEN {<<TRUE, c.res>>}
    ELSE {<<FALSE, NoTensor>>} \cup {<<TRUE, r>> : r \in Tensors}

\* The inputs a caller can pass: a layer of a chain passes activations of
\* the carried residual's shape.
InputArgs(c) == IF c.n > 0 THEN TensorsOf(c.res.shape) ELSE Tensors

DtypeArgs(c) == IF c.n > 0 THEN {c.dtype} ELSE Dtypes

Returned(o, fn, x, ra, dtype, device) ==
    /\ pc' = "done"
    /\ call' = [fn |-> fn, device |-> device, dtype |-> dtype, x |-> x,
                residual |-> ra[2], hasRes |-> ra[1], weight |-> inst.weight,
                variance_epsilon |-> inst.variance_epsilon]
    /\ xbuf' = o.xbuf
    /\ resbuf' = o.resbuf
    /\ ret' = o.ret
    /\ steps' = o.steps
    /\ inst' = [inst EXCEPT !.weight = o.weight]
    /\ chain' = ChainAfter(chain, x, ra[2], ra[1], dtype)
    /\ UNCHANGED FusedRMSNorm

Init ==
    /\ \E is_hpu \in BOOLEAN, importOk \in BOOLEAN :
           FusedRMSNorm = ModuleImport(is_hpu, importOk)
    /\ inst = NoInst
    /\ pc = "new"
    /\ call = NoCall
    /\ xbuf = NoTensor
    /\ resbuf = NoTensor
    /\ ret = NoRet
    /\ steps = NoSteps
    /\ chain = NoChain

RMSNorm_init ==
    /\ pc = "new"
    /\ \E hidden_size \in HiddenSizes, eps \in EpsVals :
          IF Init_raises(hidden_size, eps)
            THEN /\ ret' = [NoRet EXCEPT !.kind = "RuntimeError"]
                 /\ UNCHANGED <<inst, pc>>
            ELSE /\ inst' = RMSNorm(hidden_size, eps)
                 /\ pc' = "idle"
                 /\ ret' = NoRet
    /\ UNCHANGED <<FusedRMSNorm, call, xbuf, resbuf, steps, chain>>

\* the weight loader of the surrounding system sets the parameter
LoadWeights ==
    /\ pc = "idle"
    /\ chain.n = 0
    /\ inst.weight.shape[2] > 0
    /\ \E v \in LoadedVals :
          inst' = [inst EXCEPT !.weight.data = [k \in 1..Len(inst.weight.data) |-> v]]
    /\ UNCHANGED <<FusedRMSNorm, pc, call, xbuf, resbuf, ret, steps, chain>>

RMSNorm_forward ==
    /\ pc = "idle"
    /\ \E x \in InputArgs(chain), ra \in ResidualArgs(chain), dtype \in DtypeArgs(chain),
          device \in Devices(FusedRMSNorm) :
          Returned(forward(x, ra[2], ra[1], inst.weight, inst.variance_epsilon,
                           dtype, device, FusedRMSNorm),
                   "forward", x, ra, dtype, device)

RMSNorm__forward ==
    /\ pc = "idle"
    /\ \E x \in InputArgs(chain), ra \in ResidualArgs(chain), dtype \in DtypeArgs(chain) :
          Returned(_forward(x, ra[2], ra[1], inst.weight, inst.variance_epsilon, dtype),
                   "_forward", x, ra, dtype, "cpu")

\* the caller drops the result
Release ==
    /\ pc = "done"
    /\ pc' = "idle"
    /\ call' = NoCall
    /\ xbuf' = NoTensor
    /\ resbuf' = NoTensor
    /\ ret' = NoRet
    /\ steps' = NoSteps
    /\ chain' = NoChain
    /\ UNCHANGED <<FusedRMSNorm, inst>>

\* the caller keeps the returned residual for the next layer's call
Carry ==
    /\ pc = "done"
    /\ ret.kind = "pair"
    /\ chain.n >= 1
    /\ chain.n < MaxChain
    /\ ret.res.shape \in Shapes
    /\ pc' = "idle"
    /\ call' = NoCall
    /\ xbuf' = NoTensor
    /\ resbuf' = NoTensor
    /\ ret' = NoRet
    /\ steps' = NoSteps
    /\ chain' = [chain EXCEPT !.res = ret.res]
    /\ UNCHANGED <<FusedRMSNorm, inst>>

Next ==
    \/ RMSNorm_init
    \/ LoadWeights
    \/ RMSNorm_forward
    \/ RMSNorm__forward
    \/ Release
    \/ Carry

Spec == Init /\ [][Next]_vars

---------------------------------------------------------------------------
(* Properties. *)

Done == pc = "done"

Returns == ret.kind \in {"single", "pair"}

\* the weight has the input's width, and a residual the input's shape
ShapesAgree ==
    /\ call.weight.shape[2] = call.x.shape[2]
    /\ call.hasRes => call.residual.shape = call.x.shape

\* the instance is one the construction contract allows
ValidInstance == call.variance_epsilon > 0 /\ call.weight.shape[2] > 0

\* what the same arguments give on the PyTorch-native path
Native ==
    _forward(call.x, call.residual, call.hasRes, call.weight,
             call.variance_epsilon, call.dtype)

Outcomes(kind) == IF kind \in {"single", "pair"} THEN kind ELSE "raised"

\* C1: whenever a call with a residual returns (on an instance with
\* eps > 0 and hidden_size > 0), the residual it returns has the input's
\* shape and is, element by element, input + residual as passed.
C1_ResidualIsSum ==
    (Done /\ ValidInstance /\ call.hasRes /\ ret.kind = "pair") =>
        /\ ret.res.shape = call.x.shape
        /\ ret.res.data = TAdd(call.x, call.residual).data

C3_MismatchRaises ==
    (Done /\ ValidInstance /\ ~ShapesAgree) =>
        (~Returns /\ resbuf = call.residual)

\* C4: every constructed instance has eps > 0 and hidden_size > 0.
C4_PositiveParameters ==
    inst.constructed =>
        (inst.variance_epsilon > 0 /\ inst.weight.shape[2] > 0)

C6_ArityAndShape ==
    (Done /\ ValidInstance /\ Returns) =>
        /\ ret.kind = (IF call.hasRes THEN "pair" ELSE "single")
        /\ ret.out.shape = call.x.shape

\* C7: along a chain of calls, each taking the residual the one before
\* returned, the residual returned is the first residual plus the inputs
\* of all the calls so far.
C7_ChainAdditive ==
    (Done /\ chain.n >= 1 /\ ret.kind = "pair") =>
        ret.res = chain.total

C7_Witness ==
    /\ Done
    /\ chain.n = MaxChain
    /\ ret.kind = "pair"
    /\ \E k \in 1..Len(ret.res.data) : ret.res.data[k] > 12

\* C8: for arguments whose shapes agree (on an instance with eps > 0 and
\* hidden_size > 0) forward returns what _forward returns (both raise, or
\* the same values) and leaves x and residual as _forward does.
C8_ForwardIsNative ==
    (Done /\ call.fn = "forward" /\ ValidInstance /\ ShapesAgree) =>
        /\ Outcomes(ret.kind) = Outcomes(Native.ret.kind)
        /\ ret.out = Native.ret.out
        /\ ret.res = Native.ret.res
        /\ xbuf = Native.xbuf
        /\ resbuf = Native.resbuf

\* C9: no call changes the instance's weight or variance_epsilon, nor the
\* binding of FusedRMSNorm: nothing a call reads is written by a call.
C9_Stateless ==
    [][(pc = "idle" /\ pc' = "done") =>
          (inst' = inst /\ FusedRMSNorm' = FusedRMSNorm)]_vars

C9_Witness ==
    /\ Done
    /\ chain.n = MaxChain
    /\ call.fn = "forward"
    /\ ret.path = "ops_add"
    /\ inst.weight.data = <<3, 3>>

\* C10: in _forward the returned residual is the sum, converted to the
\* input's type, taken before the variance; the variance is the mean of
\* squares of the sum; the scaling uses 1/sqrt(variance + eps); and the
\* output is the scaled value first converted to the input's type and
\* then multiplied by the weight.
C10_StepOrder ==
    (Done /\ call.fn = "_forward" /\ Returns) =>
        /\ steps.summed =
              (IF call.hasRes
                 THEN TAdd(To(call.x, "float32"), To(call.residual, "float32"))
                 ELSE To(call.x, "float32"))
        /\ call.hasRes => ret.res = To(steps.summed, call.dtype)
        /\ steps.variance = MeanSq(steps.summed)
        /\ steps.scaled =
              TScale(steps.summed, RsqrtOf(steps.variance, call.variance_epsilon))
        /\ ret.out = TMul(To(steps.scaled, call.dtype), call.weight)

\* a call on which the order of conversion and weight shows in the output
C10_Witness ==
    /\ Done
    /\ call.fn = "_forward"
    /\ call.hasRes
    /\ ret.kind = "pair"
    /\ call.dtype = "float16"
    /\ ret.out # To(TMul(steps.scaled, call.weight), call.dtype)

===========================================================================
